---- MODULE Spec2Model ----
(***************************************************************************)
(* Model of src/balance_sheet_manager.py: generate_balance_sheet_schedules *)
(* (the schedule engine) and generate_simplified_balance_sheet_schedules   *)
(* (the adapter that calls it).  One call is one behaviour: Init chooses   *)
(* the entry point and its arguments, the adapter is one action, each      *)
(* numbered section of the engine's body is one action, the per-year       *)
(* accrual loop (section 8) is one action per year.  A Python exception    *)
(* ends the call in pc = "raised".                                         *)
(*                                                                         *)
(* Amounts are Python floats in the source; here they are exact rationals  *)
(* <<numerator, denominator>> in lowest terms, so equalities below are     *)
(* equalities of real arithmetic (floating rounding is not modelled).      *)
(***************************************************************************)
EXTENDS Integers, Sequences, FiniteSets, TLC

VARIABLES
    caller,                   \* <<the adapter's arguments>>, <<>> if the engine is called directly
    args,                     \* the arguments of the engine's call
    pc,                       \* the section of the function body to run next
    exc,                      \* the exception raised ("" if none)
    land_payment_start_year,  \* locals reassigned by lines 72-79
    land_payment_years,
    project_start_year,       \* locals reassigned by lines 82-112
    project_end_year,
    years,                    \* list(range(project_start_year, project_end_year + 1))
    df,                       \* the per-year arrays, one field per array
    total_revenue,            \* line 248
    i,                        \* index of the year the loop of line 269 is at (1-based)
    summary                   \* the 'Total' row (lines 428-461)

vars == <<caller, args, pc, exc, land_payment_start_year, land_payment_years,
          project_start_year, project_end_year, years, df, total_revenue, i, summary>>

-----------------------------------------------------------------------------
(* Bounds of the model *)

MaxYear == 4        \* calendar years are 1 .. MaxYear
MaxAmount == 2      \* money arguments of the engine call families are 0 .. MaxAmount
MaxLandYears == 2   \* land_payment_years is 0 .. MaxLandYears

\* Python's None for an optional int argument (years are >= 1)
None == -1

Years == 1 .. MaxYear
YearOrNone == Years \cup {None}

-----------------------------------------------------------------------------
(* Exact rational arithmetic standing for Python float arithmetic *)

RECURSIVE Gcd(_, _)
Gcd(a, b) == IF b = 0 THEN a ELSE Gcd(b, a % b)

Abs(x) == IF x < 0 THEN -x ELSE x

\* the rational n/d (d # 0) in lowest terms with a positive denominator
Rat(n, d) ==
    LET g == Gcd(Abs(n), Abs(d))
        s == IF d < 0 THEN -1 ELSE 1
    IN  <<(s * n) \div g, (s * d) \div g>>

Q(n) == <<n, 1>>
Zero == <<0, 1>>
RAdd(x, y) == Rat(x[1] * y[2] + y[1] * x[2], x[2] * y[2])
RNeg(x) == <<-x[1], x[2]>>
RSub(x, y) == RAdd(x, RNeg(y))
RMul(x, y) == Rat(x[1] * y[1], x[2] * y[2])
RDiv(x, y) == Rat(x[1] * y[2], x[2] * y[1])      \* y # Zero
RPos(x) == x[1] > 0
RLt(x, y) == x[1] * y[2] < y[1] * x[2]

\* sum(a) of an array a indexed 1 .. n
RECURSIVE SumTo(_, _)
SumTo(a, n) == IF n = 0 THEN Zero ELSE RAdd(SumTo(a, n - 1), a[n])
Sum(a) == SumTo(a, Len(a))

\* np.cumsum(a)
CumSum(a) == [k \in 1 .. Len(a) |-> SumTo(a, k)]

\* sum of f[k] over the keys k of a dict f with rational values
RECURSIVE SumDict(_, _)
SumDict(f, keys) ==
    IF keys = {} THEN Zero
    ELSE LET k == CHOOSE x \in keys : TRUE
         IN  RAdd(f[k], SumDict(f, keys \ {k}))

SetMin(S) == CHOOSE x \in S : \A y \in S : x <= y
SetMax(S) == CHOOSE x \in S : \A y \in S : x >= y

-----------------------------------------------------------------------------
(* Optional dict arguments: None, or a dict (a function on its keys) *)

NoDict == [isNone |-> TRUE, d |-> <<>>]
Dict(f) == [isNone |-> FALSE, d |-> f]
\* Python truthiness of an optional dict: None and {} are both falsy
Truthy(x) == ~x.isNone /\ DOMAIN x.d # {}
\* d.get(k, default)
Get(f, k, default) == IF k \in DOMAIN f THEN f[k] ELSE default

-----------------------------------------------------------------------------
(* The year axis (line 115) and the zero arrays (lines 119-137) *)

Range(a, b) == [k \in 1 .. (IF b >= a THEN b - a + 1 ELSE 0) |-> a + k - 1]
n_years == Len(years)
InYears(y) == \E k \in 1 .. Len(years) : years[k] = y        \* y in years
Index(y) == CHOOSE k \in 1 .. Len(years) : years[k] = y     \* years.index(y)
ZeroArr(n) == [k \in 1 .. n |-> Zero]

Columns ==
    {"debt_disbursement", "debt_repayment", "debt_balance", "interest_expense_cash",
     "interest_capitalized", "construction_cost", "land_cost", "inventory_addition",
     "inventory_balance", "presales", "customer_prepayment_balance",
     "revenue_recognition", "cogs", "cash_inflow_presales",
     "cash_outflow_construction", "cash_outflow_land", "cash_outflow_interest",
     "sga_expense", "cash_outflow_sga", "pbt", "tax_expense", "pat",
     "cash_outflow_tax", "cash_balance_change", "cumulative_cash_balance"}

ZeroTable(n) == [c \in Columns |-> ZeroArr(n)]

ArrAdd(a, b) == [k \in 1 .. Len(a) |-> RAdd(a[k], b[k])]

\* raise: the call ends with exception e, nothing is returned
Raise(e) == pc' = "raised" /\ exc' = e

-----------------------------------------------------------------------------
(* lines 71-79: backwards compatibility for the land payment *)

\* LandCompat with the deprecated single year keeping the land_payment_years argument
LandCompatKeepsYears ==
    /\ pc = "land_compat"
    /\ IF args.land_payment_start_year = None /\ args.land_payment_year # None
       THEN /\ land_payment_start_year' = args.land_payment_year
            /\ UNCHANGED land_payment_years
       ELSE IF args.land_payment_start_year = None
       THEN /\ land_payment_start_year' =
                   (IF args.project_start_year # None THEN args.project_start_year
                    ELSE args.debt_disbursement_start_year)
            /\ land_payment_years' = 1
       ELSE UNCHANGED <<land_payment_start_year, land_payment_years>>
    /\ pc' = "timeline"
    /\ UNCHANGED <<caller, args, exc, project_start_year, project_end_year, years, df,
                   total_revenue, i, summary>>

LandCompat ==
    /\ pc = "land_compat"
    /\ IF args.land_payment_start_year = None /\ args.land_payment_year # None
       THEN /\ land_payment_start_year' = args.land_payment_year
            /\ land_payment_years' = 1
       ELSE IF args.land_payment_start_year = None
       THEN /\ land_payment_start_year' =
                   (IF args.project_start_year # None THEN args.project_start_year
                    ELSE args.debt_disbursement_start_year)
            /\ land_payment_years' = 1
       ELSE UNCHANGED <<land_payment_start_year, land_payment_years>>
    /\ pc' = "timeline"
    /\ UNCHANGED <<caller, args, exc, project_start_year, project_end_year, years, df,
                   total_revenue, i, summary>>

(* lines 81-137: the project timeline and the zero arrays *)

\* start_years after the None filter of line 96
StartYears ==
    ({args.debt_disbursement_start_year, land_payment_start_year,
      args.revenue_booking_start_year, args.debt_repayment_start_year}
     \cup (IF DOMAIN args.presales_schedule # {}
           THEN {SetMin(DOMAIN args.presales_schedule)} ELSE {})) \ {None}

\* end_years after the None filter of line 111
EndYears ==
    ({args.debt_disbursement_end_year, args.debt_repayment_end_year,
      args.revenue_booking_end_year}
     \cup (IF DOMAIN args.presales_schedule # {}
           THEN {SetMax(DOMAIN args.presales_schedule)} ELSE {})) \ {None}

DerivedStart ==
    IF args.project_start_year # None THEN args.project_start_year
    ELSE IF StartYears # {} THEN SetMin(StartYears)
    ELSE args.debt_disbursement_start_year

DerivedEnd ==
    IF args.project_end_year # None THEN args.project_end_year
    ELSE IF EndYears # {} THEN SetMax(EndYears)
    ELSE args.revenue_booking_end_year

Timeline ==
    /\ pc = "timeline"
    /\ project_start_year' = DerivedStart
    /\ project_end_year' = DerivedEnd
    /\ IF DerivedStart = None \/ DerivedEnd = None
       THEN /\ Raise("TypeError")            \* range(None, ...) at line 115
            /\ UNCHANGED <<years, df>>
       ELSE /\ years' = Range(DerivedStart, DerivedEnd)
            /\ df' = ZeroTable(Len(years'))
            /\ pc' = "disbursement"
            /\ UNCHANGED exc
    /\ UNCHANGED <<caller, args, land_payment_start_year, land_payment_years,
                   total_revenue, i, summary>>

-----------------------------------------------------------------------------
(* lines 139-166: linear disbursement, construction and repayment *)

\* array a with amount written into every year of range(s, e + 1) that is in years
Spread(a, s, e, amount) ==
    [k \in 1 .. Len(a) |-> IF s <= years[k] /\ years[k] <= e THEN amount ELSE a[k]]

\* Linear with the loop written range(s, e): the end year receives nothing
LinearExclusiveEnd(a, total, s, e, sign) ==
    IF e - s + 1 > 0
    THEN Spread(a, s, e - 1, RMul(Q(sign), RDiv(Q(total), Q(e - s + 1))))
    ELSE a

\* lines 140-146, 150-156, 160-166: total / (e - s + 1) per year when the length is > 0
Linear(a, total, s, e, sign) ==
    IF e - s + 1 > 0
    THEN Spread(a, s, e, RMul(Q(sign), RDiv(Q(total), Q(e - s + 1))))
    ELSE a

Disbursement ==
    /\ pc = "disbursement"
    /\ IF args.debt_disbursement_end_year = None \/ args.debt_disbursement_start_year = None
       THEN Raise("TypeError") /\ UNCHANGED df      \* None - None at line 140
       ELSE /\ df' = [df EXCEPT !.debt_disbursement =
                        Linear(@, args.total_debt, args.debt_disbursement_start_year,
                               args.debt_disbursement_end_year, 1)]
            /\ pc' = "construction"
            /\ UNCHANGED exc
    /\ UNCHANGED <<caller, args, land_payment_start_year, land_payment_years, project_start_year,
                   project_end_year, years, total_revenue, i, summary>>

Construction ==
    /\ pc = "construction"
    /\ df' = [df EXCEPT
                !.construction_cost =
                    Linear(@, args.total_construction_cost,
                           args.debt_disbursement_start_year,
                           args.debt_disbursement_end_year, 1),
                !.cash_outflow_construction =
                    Linear(@, args.total_construction_cost,
                           args.debt_disbursement_start_year,
                           args.debt_disbursement_end_year, -1)]
    /\ pc' = "repayment"
    /\ UNCHANGED <<caller, args, exc, land_payment_start_year, land_payment_years,
                   project_start_year, project_end_year, years, total_revenue, i, summary>>

Repayment ==
    /\ pc = "repayment"
    /\ IF args.debt_repayment_end_year = None \/ args.debt_repayment_start_year = None
       THEN Raise("TypeError") /\ UNCHANGED df      \* None - None at line 160
       ELSE /\ df' = [df EXCEPT !.debt_repayment =
                        Linear(@, args.total_debt, args.debt_repayment_start_year,
                               args.debt_repayment_end_year, -1)]
            /\ pc' = "booking"
            /\ UNCHANGED exc
    /\ UNCHANGED <<caller, args, land_payment_start_year, land_payment_years, project_start_year,
                   project_end_year, years, total_revenue, i, summary>>

-----------------------------------------------------------------------------
(* lines 168-225: presales booking and cash collection *)

\* Booked without the "year in years" test of line 173: a booking year outside
\* the timeline is clamped onto the nearest row
BookedClamped(a) ==
    [k \in 1 .. Len(a) |->
        IF years[k] \in DOMAIN args.presales_schedule
        THEN Q(args.presales_schedule[years[k]])
        ELSE IF k = 1 /\ \E y \in DOMAIN args.presales_schedule : y < years[1]
        THEN Q(args.presales_schedule[
                 SetMax({y \in DOMAIN args.presales_schedule : y < years[1]})])
        ELSE a[k]]

\* lines 172-175: presales[idx] = amount for every booking year in years
Booked(a) ==
    [k \in 1 .. Len(a) |->
        IF years[k] \in DOMAIN args.presales_schedule
        THEN Q(args.presales_schedule[years[k]]) ELSE a[k]]

Booking ==
    /\ pc = "booking"
    /\ df' = [df EXCEPT !.presales = Booked(@)]
    /\ pc' = "collection"
    /\ UNCHANGED <<caller, args, exc, land_payment_start_year, land_payment_years,
                   project_start_year, project_end_year, years, total_revenue, i, summary>>

\* lines 180-195: what one booking (presale_year, presale_amount) adds to
\* cash_inflow_presales, per year index, under the supplied collection schedules
ScheduleCollection(presale_year, presale_amount) ==
    IF InYears(presale_year) /\ presale_amount > 0
    THEN LET collection_schedule ==
                 Get(args.cash_collection_schedules.d, presale_year, <<>>)
         IN  IF DOMAIN collection_schedule # {}
             THEN [k \in 1 .. n_years |->
                      IF years[k] \in DOMAIN collection_schedule
                      THEN RMul(Q(presale_amount),
                                RDiv(Q(collection_schedule[years[k]]), Q(100)))
                      ELSE Zero]
             ELSE [k \in 1 .. n_years |->
                      IF years[k] = presale_year THEN Q(presale_amount) ELSE Zero]
    ELSE ZeroArr(n_years)

\* line 215: collection_years, the forward window of a booking year
CollectionYears(year) == (year + 1) .. args.debt_disbursement_end_year

\* lines 205 and 217: the branch of the default rule that a booking year takes
DefaultBranch(year) ==
    IF year >= args.debt_disbursement_end_year THEN "immediate"
    ELSE IF CollectionYears(year) # {} THEN "spread"
    ELSE "remaining_in_booking_year"

\* DefaultCollection with the remaining 70% divided by the length of the
\* window that starts at the booking year instead of the year after it
DefaultCollectionShortWindow(year, presale_amount) ==
    LET construction_end_year == args.debt_disbursement_end_year
    IN  IF InYears(year) /\ presale_amount > 0
        THEN IF year >= construction_end_year
             THEN [k \in 1 .. n_years |->
                      IF years[k] = year THEN Q(presale_amount) ELSE Zero]
             ELSE [k \in 1 .. n_years |->
                      IF years[k] = year THEN RMul(Q(presale_amount), Rat(3, 10))
                      ELSE IF year + 1 <= years[k] /\ years[k] <= construction_end_year
                      THEN RDiv(RMul(Q(presale_amount), Rat(7, 10)),
                                Q(construction_end_year - year + 1))
                      ELSE Zero]
        ELSE ZeroArr(n_years)

\* DefaultCollection with the remaining 70% collected in one sum at the
\* construction end year instead of evenly over the forward window
DefaultCollectionLumped(year, presale_amount) ==
    LET construction_end_year == args.debt_disbursement_end_year
    IN  IF InYears(year) /\ presale_amount > 0
        THEN IF year >= construction_end_year
             THEN [k \in 1 .. n_years |->
                      IF years[k] = year THEN Q(presale_amount) ELSE Zero]
             ELSE [k \in 1 .. n_years |->
                      IF years[k] = year THEN RMul(Q(presale_amount), Rat(3, 10))
                      ELSE IF years[k] = construction_end_year
                      THEN RMul(Q(presale_amount), Rat(7, 10))
                      ELSE Zero]
        ELSE ZeroArr(n_years)

\* lines 198-225: the same under the default 30/70 rule
DefaultCollection(year, presale_amount) ==
    LET construction_end_year == args.debt_disbursement_end_year
        first_tranche == RMul(Q(presale_amount), Rat(3, 10))
        remaining_amount == RMul(Q(presale_amount), Rat(7, 10))
        n_collection == IF construction_end_year >= year + 1
                        THEN construction_end_year - year ELSE 0
    IN  IF InYears(year) /\ presale_amount > 0
        THEN IF year >= construction_end_year
             THEN [k \in 1 .. n_years |->
                      IF years[k] = year THEN Q(presale_amount) ELSE Zero]
             ELSE IF n_collection > 0
             THEN [k \in 1 .. n_years |->
                      IF years[k] = year THEN first_tranche
                      ELSE IF year + 1 <= years[k] /\ years[k] <= construction_end_year
                      THEN RDiv(remaining_amount, Q(n_collection))
                      ELSE Zero]
             ELSE [k \in 1 .. n_years |->
                      IF years[k] = year THEN RAdd(first_tranche, remaining_amount)
                      ELSE Zero]
        ELSE ZeroArr(n_years)

\* CollectionOf with line 178 written "is not None": an empty mapping counts
\* as a supplied schedule
CollectionOfSupplied(year) ==
    IF ~args.cash_collection_schedules.isNone
    THEN ScheduleCollection(year, args.presales_schedule[year])
    ELSE DefaultCollection(year, args.presales_schedule[year])

\* line 178: the branch taken, per booking
CollectionOf(year) ==
    IF Truthy(args.cash_collection_schedules)
    THEN ScheduleCollection(year, args.presales_schedule[year])
    ELSE DefaultCollection(year, args.presales_schedule[year])

\* the += of every booking of the for loops of lines 180 and 200
RECURSIVE Collected(_, _)
Collected(a, keys) ==
    IF keys = {} THEN a
    ELSE LET year == SetMin(keys)
         IN  Collected(ArrAdd(a, CollectionOf(year)), keys \ {year})

Collection ==
    /\ pc = "collection"
    /\ df' = [df EXCEPT !.cash_inflow_presales =
                Collected(@, DOMAIN args.presales_schedule)]
    /\ pc' = "sga"
    /\ UNCHANGED <<caller, args, exc, land_payment_start_year, land_payment_years,
                   project_start_year, project_end_year, years, total_revenue, i, summary>>

(* lines 227-234: SG&A on the cash collected *)

\* SgaAmount on the presales booked in the year instead of the cash collected
SgaOnBooking(k) ==
    IF RPos(df.presales[k])
    THEN RMul(df.presales[k], args.sga_percentage)
    ELSE Zero

SgaAmount(k) ==
    IF RPos(df.cash_inflow_presales[k])
    THEN RMul(df.cash_inflow_presales[k], args.sga_percentage)
    ELSE Zero

Sga ==
    /\ pc = "sga"
    /\ df' = [df EXCEPT
                !.sga_expense = [k \in 1 .. n_years |-> SgaAmount(k)],
                !.cash_outflow_sga = [k \in 1 .. n_years |-> RNeg(SgaAmount(k))]]
    /\ pc' = "land"
    /\ UNCHANGED <<caller, args, exc, land_payment_start_year, land_payment_years,
                   project_start_year, project_end_year, years, total_revenue, i, summary>>

(* lines 236-245: land cost payment *)

Land ==
    /\ pc = "land"
    /\ IF args.total_land_cost > 0 /\ land_payment_start_year # None
       THEN IF land_payment_years = 0
            THEN Raise("ZeroDivisionError") /\ UNCHANGED df       \* line 239
            ELSE LET land_payment_end_year ==
                         land_payment_start_year + land_payment_years - 1
                     annual_land_payment ==
                         RDiv(Q(args.total_land_cost), Q(land_payment_years))
                 IN  /\ df' = [df EXCEPT
                                 !.land_cost =
                                     Spread(@, land_payment_start_year,
                                            land_payment_end_year, annual_land_payment),
                                 !.cash_outflow_land =
                                     Spread(@, land_payment_start_year,
                                            land_payment_end_year,
                                            RNeg(annual_land_payment))]
                     /\ pc' = "revenue"
                     /\ UNCHANGED exc
       ELSE /\ pc' = "revenue"
            /\ UNCHANGED <<df, exc>>
    /\ UNCHANGED <<caller, args, land_payment_start_year, land_payment_years, project_start_year,
                   project_end_year, years, total_revenue, i, summary>>

(* lines 247-266: revenue recognition *)

\* line 248
TotalRevenue ==
    SumDict([y \in DOMAIN args.presales_schedule |-> Q(args.presales_schedule[y])],
            DOMAIN args.presales_schedule)

\* lines 252-257: custom distribution
CustomRevenue(a, total) ==
    [k \in 1 .. Len(a) |->
        IF args.revenue_booking_start_year <= years[k]
           /\ years[k] <= args.revenue_booking_end_year
        THEN RMul(total, Get(args.revenue_distribution.d, years[k], Zero))
        ELSE a[k]]

\* LinearRevenue with the whole revenue recognized in each booking year
LinearRevenueUndivided(a, total) ==
    Spread(a, args.revenue_booking_start_year, args.revenue_booking_end_year, total)

\* lines 260-266: linear distribution
LinearRevenue(a, total) ==
    LET booking_years == args.revenue_booking_end_year - args.revenue_booking_start_year + 1
    IN  IF booking_years > 0 /\ RPos(total)
        THEN Spread(a, args.revenue_booking_start_year, args.revenue_booking_end_year,
                    RDiv(total, Q(booking_years)))
        ELSE a

Revenue ==
    /\ pc = "revenue"
    /\ total_revenue' = TotalRevenue
    /\ IF args.revenue_booking_start_year = None \/ args.revenue_booking_end_year = None
       THEN Raise("TypeError") /\ UNCHANGED <<df, i>>        \* lines 252, 260
       ELSE /\ df' = [df EXCEPT !.revenue_recognition =
                        IF Truthy(args.revenue_distribution)
                        THEN CustomRevenue(@, TotalRevenue)
                        ELSE LinearRevenue(@, TotalRevenue)]
            /\ i' = 1
            /\ pc' = IF n_years = 0 THEN "prepayment" ELSE "loop"
            /\ UNCHANGED exc
    /\ UNCHANGED <<caller, args, land_payment_start_year, land_payment_years, project_start_year,
                   project_end_year, years, summary>>

-----------------------------------------------------------------------------
(* lines 268-340: the per-year accrual loop, one iteration per step *)

Half == Rat(1, 2)

\* lines 270-277
StartingBalance(k) == IF k = 1 THEN Zero ELSE df.debt_balance[k - 1]
\* EndingBalance with the repayment subtracted a second time
EndingBalanceRepaidTwice(k) ==
    RAdd(RAdd(RAdd(StartingBalance(k), df.debt_disbursement[k]), df.debt_repayment[k]),
         df.debt_repayment[k])
EndingBalance(k) ==
    RAdd(RAdd(StartingBalance(k), df.debt_disbursement[k]), df.debt_repayment[k])

\* lines 280-281
AverageBalance(k) == RMul(RAdd(StartingBalance(k), EndingBalance(k)), Half)
TotalInterest(k) == RMul(AverageBalance(k), args.interest_rate)

\* lines 284-285
IsConstructionPeriod(year) == year < args.revenue_booking_start_year
IsRevenuePeriod(year) ==
    args.revenue_booking_start_year <= year /\ year <= args.revenue_booking_end_year

\* InterestSplit with every positive interest expensed, none capitalized
InterestSplitExpensed(k) ==
    IF RPos(AverageBalance(k))
    THEN <<Zero, TotalInterest(k), RNeg(TotalInterest(k))>>
    ELSE <<Zero, Zero, Zero>>

\* InterestSplit with every positive interest capitalized, in any period
InterestSplitCapitalized(k) ==
    IF RPos(TotalInterest(k))
    THEN <<TotalInterest(k), Zero, RNeg(TotalInterest(k))>>
    ELSE <<Zero, Zero, Zero>>

\* lines 287-308: <<interest_capitalized, interest_expense_cash, cash_outflow_interest>>
InterestSplit(k) ==
    IF IsConstructionPeriod(years[k]) /\ RPos(TotalInterest(k))
    THEN <<TotalInterest(k), Zero, RNeg(TotalInterest(k))>>
    ELSE IF IsRevenuePeriod(years[k]) /\ RPos(AverageBalance(k))
    THEN <<Zero, TotalInterest(k), RNeg(TotalInterest(k))>>
    ELSE IF RPos(AverageBalance(k))
    THEN <<Zero, TotalInterest(k), RNeg(TotalInterest(k))>>
    ELSE <<Zero, Zero, Zero>>

\* AfterInterest with the land cost left out of the inventory addition
AfterInterestNoLand(k) ==
    LET split == InterestSplit(k)
    IN  [df EXCEPT
           !.debt_balance[k] = EndingBalance(k),
           !.interest_capitalized[k] = split[1],
           !.interest_expense_cash[k] = split[2],
           !.cash_outflow_interest[k] = split[3],
           !.inventory_addition[k] = RAdd(df.construction_cost[k], split[1])]

\* lines 270-311: the table after the debt, interest and inventory-addition
\* assignments of iteration k
AfterInterest(k) ==
    LET split == InterestSplit(k)
    IN  [df EXCEPT
           !.debt_balance[k] = EndingBalance(k),
           !.interest_capitalized[k] = split[1],
           !.interest_expense_cash[k] = split[2],
           !.cash_outflow_interest[k] = split[3],
           !.inventory_addition[k] =
               RAdd(RAdd(df.construction_cost[k], df.land_cost[k]), split[1])]

\* line 320
ReleasesInventory(k) == IsRevenuePeriod(years[k]) /\ RPos(total_revenue)

\* line 328: i == years.index(revenue_booking_end_year)
IsLastBookingYear(k) == k = Index(args.revenue_booking_end_year)

\* InventoryRelease without the forced release of the last booking year
ProportionalRelease(d, k) ==
    LET previous_inventory == IF k = 1 THEN Zero ELSE d.inventory_balance[k - 1]
        available == RAdd(previous_inventory, d.inventory_addition[k])
        total_expected_inventory ==
            RAdd(RAdd(Q(args.total_construction_cost), Q(args.total_land_cost)),
                 Sum(d.interest_capitalized))
    IN  IF ReleasesInventory(k)
        THEN LET c == RMul(total_expected_inventory,
                           RDiv(d.revenue_recognition[k], total_revenue))
             IN  <<c, RSub(available, c)>>
        ELSE <<Zero, available>>

\* InventoryRelease with the prior balance not carried into a year outside
\* the booking period
InventoryReleaseNoCarry(d, k) ==
    LET previous_inventory == IF k = 1 THEN Zero ELSE d.inventory_balance[k - 1]
        available == RAdd(previous_inventory, d.inventory_addition[k])
        total_expected_inventory ==
            RAdd(RAdd(Q(args.total_construction_cost), Q(args.total_land_cost)),
                 Sum(d.interest_capitalized))
    IN  IF ReleasesInventory(k)
        THEN IF IsLastBookingYear(k)
             THEN <<available, Zero>>
             ELSE LET c == RMul(total_expected_inventory,
                                RDiv(d.revenue_recognition[k], total_revenue))
                  IN  <<c, RSub(available, c)>>
        ELSE <<Zero, d.inventory_addition[k]>>

\* lines 314-340: <<cogs, inventory_balance>> of iteration k, d the table so far
InventoryRelease(d, k) ==
    LET previous_inventory == IF k = 1 THEN Zero ELSE d.inventory_balance[k - 1]
        available == RAdd(previous_inventory, d.inventory_addition[k])
        revenue_percentage == RDiv(d.revenue_recognition[k], total_revenue)
        total_expected_inventory ==
            RAdd(RAdd(Q(args.total_construction_cost), Q(args.total_land_cost)),
                 Sum(d.interest_capitalized))
    IN  IF ReleasesInventory(k)
        THEN IF IsLastBookingYear(k)
             THEN <<available, Zero>>
             ELSE LET c == RMul(total_expected_inventory, revenue_percentage)
                  IN  <<c, RSub(available, c)>>
        ELSE <<Zero, available>>

Loop ==
    /\ pc = "loop"
    /\ i <= n_years
    /\ IF ReleasesInventory(i) /\ ~InYears(args.revenue_booking_end_year)
       THEN /\ Raise("ValueError")                 \* years.index at line 328
            /\ df' = AfterInterest(i)
            /\ UNCHANGED i
       ELSE /\ LET d == AfterInterest(i)
                   r == InventoryRelease(d, i)
               IN  df' = [d EXCEPT !.cogs[i] = r[1], !.inventory_balance[i] = r[2]]
            /\ i' = i + 1
            /\ pc' = IF i = n_years THEN "prepayment" ELSE "loop"
            /\ UNCHANGED exc
    /\ UNCHANGED <<caller, args, land_payment_start_year, land_payment_years, project_start_year,
                   project_end_year, years, total_revenue, summary>>

-----------------------------------------------------------------------------
(* lines 342-352: customer prepayment balance *)

\* PrepaymentBalance with the balance floored at zero in every year
RECURSIVE PrepaymentBalanceClamped(_)
PrepaymentBalanceClamped(k) ==
    IF k = 0 THEN Zero
    ELSE LET balance == RSub(RAdd(PrepaymentBalanceClamped(k - 1),
                                  df.cash_inflow_presales[k]),
                             df.revenue_recognition[k])
         IN  IF RPos(balance) THEN balance ELSE Zero

RECURSIVE PrepaymentBalance(_)
PrepaymentBalance(k) ==
    IF k = 0 THEN Zero
    ELSE RSub(RAdd(PrepaymentBalance(k - 1), df.cash_inflow_presales[k]),
              df.revenue_recognition[k])

Prepayment ==
    /\ pc = "prepayment"
    /\ df' = [df EXCEPT !.customer_prepayment_balance =
                [k \in 1 .. n_years |-> PrepaymentBalance(k)]]
    /\ pc' = "pnl"
    /\ UNCHANGED <<caller, args, exc, land_payment_start_year, land_payment_years,
                   project_start_year, project_end_year, years, total_revenue, i, summary>>

(* lines 354-374: profit before tax, tax, profit after tax *)

Pbt(k) ==
    RSub(RSub(RSub(df.revenue_recognition[k], df.cogs[k]), df.sga_expense[k]),
         df.interest_expense_cash[k])
\* TaxExpense without the floor at zero: a loss earns a negative tax
TaxOnLoss(k) == RMul(Pbt(k), args.tax_rate)
TaxExpense(k) == IF RPos(Pbt(k)) THEN RMul(Pbt(k), args.tax_rate) ELSE Zero

Pnl ==
    /\ pc = "pnl"
    /\ df' = [df EXCEPT
                !.pbt = [k \in 1 .. n_years |-> Pbt(k)],
                !.tax_expense = [k \in 1 .. n_years |-> TaxExpense(k)],
                !.cash_outflow_tax = [k \in 1 .. n_years |-> RNeg(TaxExpense(k))],
                !.pat = [k \in 1 .. n_years |-> RSub(Pbt(k), TaxExpense(k))]]
    /\ pc' = "cash"
    /\ UNCHANGED <<caller, args, exc, land_payment_start_year, land_payment_years,
                   project_start_year, project_end_year, years, total_revenue, i, summary>>

(* lines 376-389: net cash flow and cumulative cash *)

\* CashBalanceChange with the debt repayment left out
CashBalanceChangeNoRepayment(k) ==
    RAdd(RAdd(RAdd(RAdd(RAdd(RAdd(
        df.cash_inflow_presales[k],
        df.debt_disbursement[k]),
        df.cash_outflow_construction[k]),
        df.cash_outflow_land[k]),
        df.cash_outflow_interest[k]),
        df.cash_outflow_sga[k]),
        df.cash_outflow_tax[k])

CashBalanceChange(k) ==
    RAdd(RAdd(RAdd(RAdd(RAdd(RAdd(RAdd(
        df.cash_inflow_presales[k],
        df.debt_disbursement[k]),
        df.cash_outflow_construction[k]),
        df.cash_outflow_land[k]),
        df.cash_outflow_interest[k]),
        df.cash_outflow_sga[k]),
        df.cash_outflow_tax[k]),
        df.debt_repayment[k])

Cash ==
    /\ pc = "cash"
    /\ LET change == [k \in 1 .. n_years |-> CashBalanceChange(k)]
       IN  df' = [df EXCEPT !.cash_balance_change = change,
                            !.cumulative_cash_balance = CumSum(change)]
    /\ pc' = "summary"
    /\ UNCHANGED <<caller, args, exc, land_payment_start_year, land_payment_years,
                   project_start_year, project_end_year, years, total_revenue, i, summary>>

(* lines 391-465: the 'Total' row and the return *)

BalanceColumns ==
    {"debt_balance", "inventory_balance", "customer_prepayment_balance",
     "cumulative_cash_balance"}

Summary ==
    /\ pc = "summary"
    /\ IF n_years = 0
       THEN Raise("IndexError") /\ UNCHANGED summary      \* debt_balance[-1], line 431
       ELSE /\ summary' = [c \in Columns |->
                             IF c \in BalanceColumns THEN df[c][n_years]
                             ELSE Sum(df[c])]
            /\ pc' = "returned"
            /\ UNCHANGED exc
    /\ UNCHANGED <<caller, args, land_payment_start_year, land_payment_years, project_start_year,
                   project_end_year, years, df, total_revenue, i>>

-----------------------------------------------------------------------------
(* The arguments of a call *)

\* the defaults of the signature (lines 6-27); the three totals have none
Defaults ==
    [total_debt |-> 0, total_construction_cost |-> 0, total_land_cost |-> 0,
     land_payment_year |-> None, presales_schedule |-> <<>>,
     interest_rate |-> Zero, sga_percentage |-> Zero,
     debt_disbursement_start_year |-> None, debt_disbursement_end_year |-> None,
     debt_repayment_start_year |-> None, debt_repayment_end_year |-> None,
     revenue_booking_start_year |-> None, revenue_booking_end_year |-> None,
     revenue_distribution |-> NoDict,
     project_start_year |-> None, project_end_year |-> None,
     tax_rate |-> Rat(1, 5), cash_collection_schedules |-> NoDict,
     land_payment_start_year |-> None, land_payment_years |-> 1]

\* a representative project: build in years 1-2, repay and book from year 3 on
Typical ==
    [Defaults EXCEPT
        !.total_debt = MaxAmount, !.total_construction_cost = MaxAmount,
        !.total_land_cost = 1, !.presales_schedule = (2 :> 1) @@ (3 :> 2),
        !.interest_rate = Rat(1, 10), !.sga_percentage = Rat(1, 20),
        !.debt_disbursement_start_year = 1, !.debt_disbursement_end_year = 2,
        !.debt_repayment_start_year = 3, !.debt_repayment_end_year = MaxYear,
        !.revenue_booking_start_year = 3, !.revenue_booking_end_year = MaxYear]

Amounts == 0 .. MaxAmount

\* explicit project years: none, or a window that cuts off the first and last year
Windows == {<<None, None>>, <<2, MaxYear - 1>>}

\* calls that vary the debt periods
DebtCalls ==
    {[Typical EXCEPT
        !.debt_disbursement_start_year = ds, !.debt_disbursement_end_year = de,
        !.debt_repayment_start_year = rs, !.debt_repayment_end_year = re,
        !.project_start_year = w[1], !.project_end_year = w[2]] :
     ds \in YearOrNone, de \in YearOrNone, rs \in YearOrNone, re \in YearOrNone,
     w \in Windows}

\* <<start, end>> of a period: every non-empty interval of years, and an inverted pair
PeriodPairs == {p \in Years \X Years : p[1] <= p[2]} \cup {<<3, 2>>}

\* revenue-booking boundaries: the period pairs, and pairs with a missing boundary
BookingPairs ==
    PeriodPairs \cup {<<MaxYear, 1>>, <<None, None>>, <<None, 3>>, <<3, None>>}

\* <<presales_schedule, revenue_distribution>>
RevenueChoices ==
    {<< <<>>, NoDict >>,
     << (2 :> 2), NoDict >>,
     << (2 :> 2), Dict(<<>>) >>,
     << (2 :> 2), Dict((2 :> Rat(1, 2)) @@ (3 :> Rat(1, 2))) >>,
     << (1 :> 1) @@ (3 :> 2), NoDict >>,
     << (1 :> 1) @@ (3 :> 2), Dict((3 :> Rat(1, 4)) @@ (MaxYear :> Rat(3, 4))) >>}

\* <<debt_disbursement_start_year, debt_disbursement_end_year>>: construction
\* early, up to the last year, in the last year only, and an inverted pair
ConstructionPairs == {<<1, 2>>, <<2, MaxYear>>, <<MaxYear, MaxYear>>, <<3, 2>>}

\* calls that vary the construction and revenue-booking periods
RevenueCalls ==
    {[Typical EXCEPT
        !.debt_disbursement_start_year = dp[1], !.debt_disbursement_end_year = dp[2],
        !.revenue_booking_start_year = bp[1], !.revenue_booking_end_year = bp[2],
        !.presales_schedule = rc[1], !.revenue_distribution = rc[2],
        !.land_payment_start_year = ls,
        !.project_start_year = w[1], !.project_end_year = w[2]] :
     dp \in ConstructionPairs, bp \in BookingPairs,
     rc \in RevenueChoices, ls \in {None, MaxYear}, w \in Windows}

\* presales schedules with at most two booking years
Schedules ==
    {<<>>} \cup {(b :> a) : b \in Years, a \in Amounts}
           \cup {(b :> a) @@ (c :> MaxAmount) : b \in Years, c \in Years, a \in Amounts}

CollectionChoices ==
    {NoDict, Dict(<<>>), Dict((2 :> <<>>)),
     Dict((2 :> ((2 :> 50) @@ (3 :> 50)))),
     Dict((1 :> ((1 :> 100))) @@ (2 :> ((1 :> 20) @@ (MaxYear :> 30)))),
     Dict((3 :> ((2 :> 40) @@ (3 :> 70))))}

\* <<cash_collection_schedules, debt_disbursement_end_year>>: the construction
\* end year varies where the default rule reads it (no or an empty mapping)
CollectionPairs ==
    {<<cs, de>> \in CollectionChoices \X Years : Truthy(cs) => de = 2}

\* calls that vary the presales schedule and its collection (revenue is booked
\* in year 3, which every window contains)
CollectionCalls ==
    {[Typical EXCEPT
        !.presales_schedule = p, !.cash_collection_schedules = cp[1],
        !.debt_disbursement_end_year = cp[2],
        !.revenue_booking_start_year = 3, !.revenue_booking_end_year = 3,
        !.project_start_year = w[1], !.project_end_year = w[2]] :
     p \in Schedules, cp \in CollectionPairs, w \in Windows}

\* calls that vary the land payment and the explicit project years
LandCalls ==
    {[Typical EXCEPT
        !.land_payment_year = ly, !.land_payment_start_year = ls,
        !.land_payment_years = n, !.total_land_cost = c,
        !.project_start_year = ps, !.project_end_year = pe] :
     ly \in YearOrNone, ls \in YearOrNone, n \in 0 .. MaxLandYears, c \in {0, 1},
     ps \in {None, 1, 2}, pe \in {None, 1, MaxYear}}

\* the example of the documentation: presales {2025: 300, 2026: 500, 2027: 200},
\* disbursement ending in 2026, no collection schedule (year 1 standing for 2024)
ExampleCall ==
    [Typical EXCEPT
        !.presales_schedule = (2 :> 300) @@ (3 :> 500) @@ (4 :> 200),
        !.debt_disbursement_end_year = 3,
        !.debt_repayment_start_year = 4, !.debt_repayment_end_year = 4,
        !.revenue_booking_start_year = 4, !.revenue_booking_end_year = 4]

Calls == DebtCalls \cup RevenueCalls \cup CollectionCalls \cup LandCalls \cup {ExampleCall}

-----------------------------------------------------------------------------
(* lines 468-577: generate_simplified_balance_sheet_schedules, the adapter *)

\* the defaults of the adapter's signature (lines 468-492); the three totals have none
SimplifiedDefaults ==
    [total_debt |-> 0, total_construction_cost |-> 0, total_land_cost |-> 0,
     land_payment_year |-> None, total_revenue |-> 0,
     interest_rate |-> Zero, sga_percentage |-> Zero,
     construction_start_year |-> None, construction_end_year |-> None,
     sales_start_year |-> None, sales_end_year |-> None,
     debt_repayment_start_year |-> None, debt_repayment_end_year |-> None,
     revenue_booking_start_year |-> None, revenue_booking_end_year |-> None,
     presales_distribution |-> NoDict, revenue_distribution |-> NoDict,
     tax_rate |-> Rat(1, 5), price_increment_factor |-> Zero,
     base_asp |-> None, total_nsa |-> None,
     land_payment_start_year |-> None, land_payment_years |-> 1]

\* str(year), the key of a distribution (lines 530, 543)
Str(year) == ToString(year)

\* int(year_str) (line 554): the decimal spellings of a one-digit year, with
\* or without a leading zero; any other string raises ValueError
IntLiterals(n) == {ToString(n), "0" \o ToString(n)}
Parses(s) == \E n \in 0 .. 9 : s \in IntLiterals(n)
IntOf(s) == CHOOSE n \in 0 .. 9 : s \in IntLiterals(n)

\* percentage / 100.0
Percent(p) == Rat(p, 100)

\* x ** n
RECURSIVE RPow(_, _)
RPow(x, n) == IF n = 0 THEN Q(1) ELSE RMul(x, RPow(x, n - 1))

\* the whole number r: presales amounts are whole numbers in args (the calls
\* below make every product of the adapter whole)
Whole(r) == r[1] \div r[2]

\* line 525
Escalates(k) ==
    RPos(k.price_increment_factor) /\ k.base_asp # None /\ k.total_nsa # None

\* presales_distribution.get(str(year), 0.0) / 100.0 (lines 530, 543)
YearPct(k, year) == Percent(Get(k.presales_distribution.d, Str(year), 0))

\* lines 529-535: the amount of a sales year with price escalation
EscalatedAmount(k, year) ==
    LET year_nsa == RMul(Q(k.total_nsa), YearPct(k, year))
        year_asp == RMul(Q(k.base_asp),
                         RPow(RAdd(Q(1), k.price_increment_factor),
                              year - k.sales_start_year))
    IN  RMul(year_nsa, year_asp)

\* lines 542-544: the amount of a sales year without price escalation
PlainAmount(k, year) == RMul(Q(k.total_revenue), YearPct(k, year))

\* lines 522-547: presales_schedule
PresalesSchedule(k) ==
    IF Truthy(k.presales_distribution)
    THEN [year \in k.sales_start_year .. k.sales_end_year |->
            Whole(IF Escalates(k) THEN EscalatedAmount(k, year)
                  ELSE PlainAmount(k, year))]
    ELSE <<>>

\* RevenueDistConverted without the division by 100
RevenueDistUnconverted(k) ==
    IF Truthy(k.revenue_distribution)
    THEN LET d == k.revenue_distribution.d
         IN  Dict([year \in {IntOf(s) : s \in DOMAIN d} |->
                      Q(d[CHOOSE s \in DOMAIN d : IntOf(s) = year])])
    ELSE NoDict

\* lines 549-556: revenue_dist_converted
RevenueDistConverted(k) ==
    IF Truthy(k.revenue_distribution)
    THEN LET d == k.revenue_distribution.d
         IN  Dict([year \in {IntOf(s) : s \in DOMAIN d} |->
                      Percent(d[CHOOSE s \in DOMAIN d : IntOf(s) = year])])
    ELSE NoDict

\* lines 558-577: the keyword arguments of the engine's call; the parameters
\* not passed keep the defaults of the engine's signature
EngineCall(k) ==
    [Defaults EXCEPT
        !.total_debt = k.total_debt,
        !.total_construction_cost = k.total_construction_cost,
        !.total_land_cost = k.total_land_cost,
        !.land_payment_year = k.land_payment_year,
        !.land_payment_start_year = k.land_payment_start_year,
        !.land_payment_years = k.land_payment_years,
        !.presales_schedule = PresalesSchedule(k),
        !.interest_rate = k.interest_rate,
        !.sga_percentage = k.sga_percentage,
        !.debt_disbursement_start_year = k.construction_start_year,
        !.debt_disbursement_end_year = k.construction_end_year,
        !.debt_repayment_start_year = k.debt_repayment_start_year,
        !.debt_repayment_end_year = k.debt_repayment_end_year,
        !.revenue_booking_start_year = k.revenue_booking_start_year,
        !.revenue_booking_end_year = k.revenue_booking_end_year,
        !.revenue_distribution = RevenueDistConverted(k),
        !.tax_rate = k.tax_rate]

Simplified ==
    /\ pc = "simplified"
    /\ LET k == caller[1]
       IN  IF (k.sales_start_year = None \/ k.sales_end_year = None)
              /\ (Escalates(k) \/ Truthy(k.presales_distribution))
           THEN /\ Raise("TypeError")               \* range(None, ...), lines 527, 542
                /\ UNCHANGED <<args, land_payment_start_year, land_payment_years>>
           ELSE IF Truthy(k.revenue_distribution)
                   /\ \E s \in DOMAIN k.revenue_distribution.d : ~Parses(s)
           THEN /\ Raise("ValueError")              \* int(year_str), line 554
                /\ UNCHANGED <<args, land_payment_start_year, land_payment_years>>
           ELSE /\ args' = EngineCall(k)
                /\ land_payment_start_year' = k.land_payment_start_year
                /\ land_payment_years' = k.land_payment_years
                /\ pc' = "land_compat"
                /\ UNCHANGED exc
    /\ UNCHANGED <<caller, project_start_year, project_end_year, years, df,
                   total_revenue, i, summary>>

\* a representative call of the adapter: build in years 2-3, sell in years 2-3,
\* repay and book from year 3 on
TypicalSimplified ==
    [SimplifiedDefaults EXCEPT
        !.total_debt = MaxAmount, !.total_construction_cost = MaxAmount,
        !.total_land_cost = 1, !.total_revenue = 4,
        !.interest_rate = Rat(1, 10), !.sga_percentage = Rat(1, 20),
        !.construction_start_year = 2, !.construction_end_year = 3,
        !.sales_start_year = 2, !.sales_end_year = 3,
        !.debt_repayment_start_year = 3, !.debt_repayment_end_year = MaxYear,
        !.revenue_booking_start_year = 3, !.revenue_booking_end_year = MaxYear]

\* {year_str: percentage}, with total_revenue = 4 every amount is whole
PresalesDistributions ==
    {NoDict, Dict(<<>>),
     Dict(("2" :> 50) @@ ("3" :> 50)),
     Dict(("1" :> 25) @@ ("3" :> 75)),
     Dict(("2" :> 100))}

\* {year_str: percentage}; "03" parses as 3, "x" does not parse
RevenueDistributions ==
    {NoDict, Dict(<<>>),
     Dict(("3" :> 50) @@ ("4" :> 50)),
     Dict(("03" :> 100)),
     Dict(("x" :> 100))}

\* <<sales_start_year, sales_end_year>>
SalesPairs == {<<1, MaxYear>>, <<2, 3>>, <<3, 2>>, <<None, None>>}

\* <<price_increment_factor, base_asp, total_nsa>>
Escalations == {<<Zero, None, None>>, <<Q(1), 1, 4>>, <<Q(1), None, 4>>}

\* <<land_payment_year, land_payment_start_year, land_payment_years>>
LandChoices == {<<None, None, 1>>, <<None, 1, 2>>, <<2, None, 2>>}

\* calls of the adapter
SimplifiedCalls ==
    {[TypicalSimplified EXCEPT
        !.presales_distribution = pd, !.revenue_distribution = rd,
        !.sales_start_year = sp[1], !.sales_end_year = sp[2],
        !.price_increment_factor = es[1], !.base_asp = es[2], !.total_nsa = es[3],
        !.construction_start_year = cs, !.construction_end_year = cs + 1,
        !.land_payment_year = lc[1], !.land_payment_start_year = lc[2],
        !.land_payment_years = lc[3]] :
     pd \in PresalesDistributions, rd \in RevenueDistributions, sp \in SalesPairs,
     es \in Escalations, cs \in {1, 2}, lc \in LandChoices}

-----------------------------------------------------------------------------
\* a call of the engine, or a call of the adapter (the engine's arguments are
\* then set by Simplified)
Init ==
    /\ \/ /\ caller = <<>>
          /\ args \in Calls
          /\ pc = "land_compat"
       \/ /\ caller \in {<<k>> : k \in SimplifiedCalls}
          /\ args = Defaults
          /\ pc = "simplified"
    /\ exc = ""
    /\ land_payment_start_year = args.land_payment_start_year
    /\ land_payment_years = args.land_payment_years
    /\ project_start_year = args.project_start_year
    /\ project_end_year = args.project_end_year
    /\ years = <<>>
    /\ df = ZeroTable(0)
    /\ total_revenue = Zero
    /\ i = 0
    /\ summary = [c \in Columns |-> Zero]

Next ==
    \/ Simplified
    \/ LandCompat
    \/ Timeline
    \/ Disbursement
    \/ Construction
    \/ Repayment
    \/ Booking
    \/ Collection
    \/ Sga
    \/ Land
    \/ Revenue
    \/ Loop
    \/ Prepayment
    \/ Pnl
    \/ Cash
    \/ Summary

Spec == Init /\ [][Next]_vars

-----------------------------------------------------------------------------
(* Properties of the engine *)

Returned == pc = "returned"

\* [s, e] is a non-empty period whose years are all in the project timeline
PeriodInside(s, e) ==
    /\ s # None /\ e # None
    /\ project_start_year <= s /\ s <= e /\ e <= project_end_year

DisbursementInside ==
    PeriodInside(args.debt_disbursement_start_year, args.debt_disbursement_end_year)
RepaymentInside ==
    PeriodInside(args.debt_repayment_start_year, args.debt_repayment_end_year)
BookingInside ==
    PeriodInside(args.revenue_booking_start_year, args.revenue_booking_end_year)
LandEnd == land_payment_start_year + land_payment_years - 1
LandInside == PeriodInside(land_payment_start_year, LandEnd)

\* the value a linear distribution of total over [s, e] gives year y
Share(total, s, e, y) ==
    IF s <= y /\ y <= e THEN RDiv(Q(total), Q(e - s + 1)) ELSE Zero

\* C1: when the disbursement period and the repayment period are (non-empty)
\* periods lying fully inside the project timeline, every year of a period
\* [s, e] holds total_debt / (e - s + 1) (repayment negative), every other year
\* holds 0, Debt_Disbursement sums to total_debt and Debt_Repayment sums to
\* -total_debt, in the per-year rows and in the Total row.
C1_DebtSums ==
    (Returned /\ DisbursementInside /\ RepaymentInside) =>
        /\ \A k \in 1 .. n_years :
              /\ df.debt_disbursement[k] =
                    Share(args.total_debt, args.debt_disbursement_start_year,
                          args.debt_disbursement_end_year, years[k])
              /\ df.debt_repayment[k] =
                    RNeg(Share(args.total_debt, args.debt_repayment_start_year,
                               args.debt_repayment_end_year, years[k]))
        /\ Sum(df.debt_disbursement) = Q(args.total_debt)
        /\ Sum(df.debt_repayment) = Q(-args.total_debt)
        /\ summary.debt_disbursement = Q(args.total_debt)
        /\ summary.debt_repayment = Q(-args.total_debt)

\* a returned table whose debt is drawn over two or more years and repaid over
\* two or more years, all inside an explicitly given timeline
C1_Witness ==
    /\ Returned /\ DisbursementInside /\ RepaymentInside
    /\ args.total_debt > 0
    /\ args.project_start_year # None
    /\ args.debt_disbursement_end_year > args.debt_disbursement_start_year
    /\ args.debt_repayment_end_year > args.debt_repayment_start_year

\* C2 as stated: in every returned table that has a row for
\* revenue_booking_end_year, Inventory_Balance of that row is 0
C2_AlwaysZero ==
    (Returned /\ InYears(args.revenue_booking_end_year)) =>
        df.inventory_balance[Index(args.revenue_booking_end_year)] = Zero

\* C2 (amended): in every returned table with total revenue > 0 and a non-empty
\* revenue-booking period whose end year is in the timeline, Inventory_Balance
\* in the row of revenue_booking_end_year is exactly 0.
C2_ZeroWhenRevenue ==
    (/\ Returned
     /\ InYears(args.revenue_booking_end_year)
     /\ args.revenue_booking_start_year <= args.revenue_booking_end_year
     /\ RPos(total_revenue)) =>
        df.inventory_balance[Index(args.revenue_booking_end_year)] = Zero

\* the last booking year released a positive inventory that the proportional
\* rule alone would not have released in full
C2_Witness ==
    /\ Returned
    /\ InYears(args.revenue_booking_end_year)
    /\ args.revenue_booking_start_year < args.revenue_booking_end_year
    /\ RPos(total_revenue)
    /\ LET k == Index(args.revenue_booking_end_year)
       IN  /\ RPos(df.cogs[k])
           /\ df.cogs[k] # RMul(RAdd(RAdd(Q(args.total_construction_cost),
                                         Q(args.total_land_cost)),
                                    Sum(df.interest_capitalized)),
                               RDiv(df.revenue_recognition[k], total_revenue))
           /\ df.inventory_balance[k] = Zero

TotalInventory ==
    RAdd(RAdd(Q(args.total_construction_cost), Q(args.total_land_cost)),
         Sum(df.interest_capitalized))

\* C3 as stated: whenever the disbursement, land-payment, repayment and
\* revenue-booking periods all lie inside the timeline, COGS sums to
\* total_construction_cost + total_land_cost + the capitalized interest
C3_CogsEqualsInventory ==
    (Returned /\ DisbursementInside /\ LandInside /\ RepaymentInside /\ BookingInside)
        => Sum(df.cogs) = TotalInventory

\* no construction cost and no land cost falls in a year after
\* revenue_booking_end_year
CostsByBookingEnd ==
    /\ args.total_construction_cost = 0
          \/ args.debt_disbursement_end_year <= args.revenue_booking_end_year
    /\ args.total_land_cost = 0 \/ LandEnd <= args.revenue_booking_end_year

\* C3 (amended): the same, when in addition total revenue is > 0 and no
\* construction cost or land cost falls in a year after revenue_booking_end_year.
C3_CogsEqualsInventoryByBookingEnd ==
    (/\ Returned /\ DisbursementInside /\ LandInside /\ RepaymentInside /\ BookingInside
     /\ RPos(total_revenue)
     /\ CostsByBookingEnd)
        => /\ Sum(df.cogs) = TotalInventory
           /\ summary.cogs = TotalInventory

\* interest was capitalized, land was paid, and COGS was released in two
\* different years that together make up the whole inventory
C3_Witness ==
    /\ Returned /\ DisbursementInside /\ LandInside /\ RepaymentInside /\ BookingInside
    /\ RPos(total_revenue)
    /\ CostsByBookingEnd
    /\ RPos(Sum(df.interest_capitalized))
    /\ args.total_land_cost > 0
    /\ \E j, k \in 1 .. n_years : j # k /\ RPos(df.cogs[j]) /\ RPos(df.cogs[k])
    /\ Sum(df.cogs) = TotalInventory

-----------------------------------------------------------------------------
(* Cash collection *)

\* the collection loop of lines 177-225 has run
CollectionDone ==
    pc \in {"sga", "land", "revenue", "loop", "prepayment", "pnl", "cash", "summary",
            "returned"}

\* the booking years that collect cash: inside the timeline, positive amount
CollectingYears ==
    {b \in DOMAIN args.presales_schedule :
        /\ project_start_year <= b /\ b <= project_end_year
        /\ args.presales_schedule[b] > 0}

\* what the default rule says the booking (b, amount) collects in year y
TrancheRule(b, amount, y) ==
    LET end == args.debt_disbursement_end_year
    IN  IF b >= end
        THEN IF y = b THEN amount ELSE Zero
        ELSE IF y = b THEN RMul(Rat(3, 10), amount)
        ELSE IF b + 1 <= y /\ y <= end
        THEN RDiv(RMul(Rat(7, 10), amount), Q(end - b))
        ELSE Zero

\* what a supplied mapping says the booking (b, amount) collects in year y:
\* its percentages, or 100% in year b when it has no entry or an empty entry
ScheduleRule(b, amount, y) ==
    LET entry == Get(args.cash_collection_schedules.d, b, <<>>)
    IN  IF DOMAIN entry # {}
        THEN IF y \in DOMAIN entry
             THEN RDiv(RMul(amount, Q(entry[y])), Q(100)) ELSE Zero
        ELSE IF y = b THEN amount ELSE Zero

\* Cash_Inflow_Presales of every year is the sum of TrancheRule over the bookings
FollowsTrancheRule ==
    \A k \in 1 .. n_years :
        df.cash_inflow_presales[k] =
            SumDict([b \in CollectingYears |->
                        TrancheRule(b, Q(args.presales_schedule[b]), years[k])],
                    CollectingYears)

\* Cash_Inflow_Presales of every year is the sum of ScheduleRule over the bookings
FollowsScheduleRule ==
    \A k \in 1 .. n_years :
        df.cash_inflow_presales[k] =
            SumDict([b \in CollectingYears |->
                        ScheduleRule(b, Q(args.presales_schedule[b]), years[k])],
                    CollectingYears)

\* C4: when no cash_collection_schedules argument is supplied, every booking
\* (b, A > 0) inside the timeline adds A to year b if b >= debt_disbursement_end_year,
\* and otherwise 0.3 A to year b and 0.7 A / (end - b) to each year b+1 .. end;
\* Cash_Inflow_Presales of a year is the sum of these contributions.
C4_DefaultRule ==
    (CollectionDone /\ args.cash_collection_schedules.isNone) => FollowsTrancheRule

\* the documented example: 90 collected in 2025, 210 + 500 in 2026, 200 in 2027
C4_Witness ==
    /\ Returned
    /\ args.cash_collection_schedules.isNone
    /\ args.presales_schedule = (2 :> 300) @@ (3 :> 500) @@ (4 :> 200)
    /\ args.debt_disbursement_end_year = 3
    /\ years = <<1, 2, 3, 4>>
    /\ df.cash_inflow_presales = <<Zero, Q(90), Q(710), Q(200)>>

\* C5 as stated: whenever a mapping is supplied, even one with no entries, a
\* booking year without an entry (or with an empty one) collects 100% in the
\* booking year; the 30/70 rule applies only when no argument is supplied
C5_AnyMappingSupplied ==
    (CollectionDone /\ ~args.cash_collection_schedules.isNone) => FollowsScheduleRule

\* C5 (amended): whenever a mapping with at least one entry is supplied, a
\* booking year (inside the timeline, amount > 0) without an entry or with an
\* empty entry collects exactly 100% in the booking year and the other booking
\* years collect their percentages; the 30/70 default rule is applied when no
\* argument is supplied or the supplied mapping has no entries at all.
C5_NonEmptyMappingSupplied ==
    CollectionDone =>
        IF Truthy(args.cash_collection_schedules)
        THEN FollowsScheduleRule
        ELSE FollowsTrancheRule

\* a non-empty mapping without an entry for a booking year before the
\* disbursement end: the whole amount is collected in the booking year
C5_Witness ==
    /\ Returned
    /\ Truthy(args.cash_collection_schedules)
    /\ \E b \in CollectingYears :
          /\ b \notin DOMAIN args.cash_collection_schedules.d
          /\ b < args.debt_disbursement_end_year
          /\ DOMAIN args.presales_schedule = {b}
          /\ df.cash_inflow_presales[Index(b)] = Q(args.presales_schedule[b])
          /\ Sum(df.cash_inflow_presales) = Q(args.presales_schedule[b])

\* the booking years inside [project_start_year, project_end_year]
InsideYears ==
    {b \in DOMAIN args.presales_schedule :
        project_start_year <= b /\ b <= project_end_year}

AllBooked ==
    SumDict([b \in DOMAIN args.presales_schedule |-> Q(args.presales_schedule[b])],
            DOMAIN args.presales_schedule)

InsideBooked ==
    SumDict([b \in InsideYears |-> Q(args.presales_schedule[b])], InsideYears)

\* C10: a presales booking year outside [project_start_year, project_end_year]
\* counts in total_revenue but in no per-year Presales value and in no per-year
\* Cash_Inflow_Presales value: total_revenue is the sum of all bookings, the
\* Presales column holds the bookings of the inside years only, and the
\* Cash_Inflow_Presales column is what the inside bookings alone collect, under
\* the default rule and under a supplied schedule.
C10_OutsideBooking ==
    Returned =>
        /\ total_revenue = AllBooked
        /\ \A k \in 1 .. n_years :
              df.presales[k] = Q(Get(args.presales_schedule, years[k], 0))
        /\ summary.presales = InsideBooked
        /\ IF Truthy(args.cash_collection_schedules)
           THEN FollowsScheduleRule
           ELSE FollowsTrancheRule

\* a booking before the first project year whose default forward window reaches
\* into the timeline, and nothing of it is booked or collected in any row
C10_Witness ==
    /\ Returned
    /\ args.cash_collection_schedules.isNone
    /\ \E b \in DOMAIN args.presales_schedule :
          /\ b < project_start_year
          /\ args.presales_schedule[b] > 0
          /\ args.debt_disbursement_end_year >= project_start_year
          /\ DOMAIN args.presales_schedule = {b}
          /\ total_revenue = Q(args.presales_schedule[b])
    /\ Sum(df.presales) = Zero
    /\ Sum(df.cash_inflow_presales) = Zero

-----------------------------------------------------------------------------
(* Timeline, missing boundaries, zero-length periods, years outside the timeline *)

\* lines 81-115 have produced the year axis
TimelineDone ==
    /\ pc \notin {"land_compat", "timeline"}
    /\ project_start_year # None /\ project_end_year # None

InTimeline(y) == project_start_year <= y /\ y <= project_end_year

\* every year of the configured period [s, e] is in the timeline
Covered(s, e) == (s # None /\ e # None) => \A y \in s .. e : InTimeline(y)

AllZero(a) == \A k \in 1 .. Len(a) : a[k] = Zero

\* C6: when project_start_year and project_end_year are not given, the derived
\* timeline contains every year of the disbursement, repayment and
\* revenue-booking periods, every year of the land-payment period
\* [land_payment_start_year .. land_payment_start_year + land_payment_years - 1]
\* (checked when there is a land cost to pay) and every presales booking year.
C6_DerivedTimelineCoversPeriods ==
    (TimelineDone /\ args.project_start_year = None /\ args.project_end_year = None) =>
        /\ Covered(args.debt_disbursement_start_year, args.debt_disbursement_end_year)
        /\ Covered(args.debt_repayment_start_year, args.debt_repayment_end_year)
        /\ Covered(args.revenue_booking_start_year, args.revenue_booking_end_year)
        /\ args.total_land_cost > 0 => Covered(land_payment_start_year, LandEnd)
        /\ \A b \in DOMAIN args.presales_schedule : InTimeline(b)

MissingDebtBoundary ==
    \/ args.debt_disbursement_start_year = None
    \/ args.debt_disbursement_end_year = None
    \/ args.debt_repayment_start_year = None
    \/ args.debt_repayment_end_year = None

\* C7: when a disbursement or repayment boundary is missing and the other
\* inputs give the timeline, the call raises no exception, and the table it
\* returns has the corresponding series zero in every year.
C7_MissingBoundariesNoException ==
    (TimelineDone /\ MissingDebtBoundary) =>
        /\ pc # "raised"
        /\ Returned =>
              /\ (args.debt_disbursement_start_year = None
                    \/ args.debt_disbursement_end_year = None)
                  => AllZero(df.debt_disbursement) /\ AllZero(df.construction_cost)
              /\ (args.debt_repayment_start_year = None
                    \/ args.debt_repayment_end_year = None)
                  => AllZero(df.debt_repayment)

\* all period boundaries are given
BoundariesGiven ==
    /\ ~MissingDebtBoundary
    /\ args.revenue_booking_start_year # None /\ args.revenue_booking_end_year # None

\* C8: no distribution divides by a zero or negative period length: with all
\* boundaries given the call never raises ZeroDivisionError, and in the table it
\* returns a distribution whose period has length <= 0 is all zero.
C8_ZeroLengthGuarded ==
    BoundariesGiven =>
        /\ ~(pc = "raised" /\ exc = "ZeroDivisionError")
        /\ Returned =>
              /\ args.debt_disbursement_end_year < args.debt_disbursement_start_year
                  => AllZero(df.debt_disbursement) /\ AllZero(df.construction_cost)
              /\ args.debt_repayment_end_year < args.debt_repayment_start_year
                  => AllZero(df.debt_repayment)
              /\ args.revenue_booking_end_year < args.revenue_booking_start_year
                  => AllZero(df.revenue_recognition)
              /\ land_payment_years <= 0 => AllZero(df.land_cost)

\* C9: for explicitly given project_start_year <= project_end_year (all period
\* boundaries given, land_payment_years >= 1), the call raises no exception
\* whichever configured years fall outside the timeline, revenue_booking_end_year
\* included, and returns one row per timeline year.
C9_OutsideYearsDropped ==
    (/\ args.project_start_year # None /\ args.project_end_year # None
     /\ args.project_start_year <= args.project_end_year
     /\ BoundariesGiven
     /\ args.land_payment_years >= 1) =>
        /\ pc # "raised"
        /\ Returned => n_years = args.project_end_year - args.project_start_year + 1

-----------------------------------------------------------------------------
(* Interest of the year: C11 *)

\* iteration k of the accrual loop has been executed
Processed(k) == k \in 1 .. n_years /\ k < i

\* the interest of year k as the returned table gives it: the rate times the
\* average of the prior and the current ending debt balance
DebtBefore(k) == IF k = 1 THEN Zero ELSE df.debt_balance[k - 1]
AverageDebt(k) == RMul(RAdd(DebtBefore(k), df.debt_balance[k]), Half)
Interest(k) == RMul(args.interest_rate, AverageDebt(k))

BeforeBooking(k) == years[k] < args.revenue_booking_start_year

NoInterest(k) ==
    df.interest_capitalized[k] = Zero /\ df.interest_expense_cash[k] = Zero

Capitalizes(k) ==
    df.interest_capitalized[k] = Interest(k) /\ df.interest_expense_cash[k] = Zero

Expenses(k) ==
    df.interest_expense_cash[k] = Interest(k) /\ df.interest_capitalized[k] = Zero

InterestOutflow(k) ==
    df.cash_outflow_interest[k] =
        RNeg(RAdd(df.interest_capitalized[k], df.interest_expense_cash[k]))

\* C11 as stated: every year before revenue_booking_start_year capitalizes the
\* interest rate * (prior + current ending debt balance) / 2, every year at or
\* after it with a positive average balance expenses it, a zero average balance
\* gives none, and Cash_Outflow_Interest = -(capitalized + expensed).
C11_EveryYearBeforeBookingCapitalizes ==
    \A k \in 1 .. n_years : Processed(k) =>
        /\ BeforeBooking(k) => Capitalizes(k)
        /\ (~BeforeBooking(k) /\ RPos(AverageDebt(k))) => Expenses(k)
        /\ AverageDebt(k) = Zero => NoInterest(k)
        /\ InterestOutflow(k)

\* C11, amended: a year before revenue_booking_start_year capitalizes the
\* interest only when the average balance is positive; a year at or after it
\* with a positive average balance expenses it; an average balance that is
\* zero or negative gives no interest of either kind; in every year
\* Cash_Outflow_Interest = -(Interest_Capitalized + Interest_Expense_Cash).
C11_PositiveAverageCapitalizes ==
    \A k \in 1 .. n_years : Processed(k) =>
        /\ IF RPos(AverageDebt(k))
           THEN IF BeforeBooking(k) THEN Capitalizes(k) ELSE Expenses(k)
           ELSE NoInterest(k)
        /\ InterestOutflow(k)

\* a returned table with a year that capitalizes, a year that expenses and a
\* year before the booking start whose average balance is negative
C11_Witness ==
    /\ Returned
    /\ \E k \in 1 .. n_years : BeforeBooking(k) /\ RPos(df.interest_capitalized[k])
    /\ \E k \in 1 .. n_years : ~BeforeBooking(k) /\ RPos(df.interest_expense_cash[k])
    /\ \E k \in 1 .. n_years : BeforeBooking(k) /\ RLt(AverageDebt(k), Zero)

-----------------------------------------------------------------------------
(* Profit and tax: C12 *)

\* the profit-and-loss pass (lines 354-374) has been executed
PnlDone == pc \in {"cash", "summary", "returned"}

\* Revenue_Recognition - COGS - SGA_Expense - Interest_Expense_Cash of year k
ProfitBeforeTax(k) ==
    RSub(df.revenue_recognition[k],
         RAdd(RAdd(df.cogs[k], df.sga_expense[k]), df.interest_expense_cash[k]))

\* max(x, 0)
Floor0(x) == IF RLt(x, Zero) THEN Zero ELSE x

\* C12: in every year PBT = Revenue_Recognition - COGS - SGA_Expense -
\* Interest_Expense_Cash, Tax = max(PBT, 0) * tax_rate, Cash_Outflow_Tax = -Tax
\* and PAT = PBT - Tax; the tax of a year depends on that year's PBT alone, so
\* a year with negative PBT pays zero tax and its loss reduces no later tax.
C12_ProfitAndTax ==
    PnlDone =>
        \A k \in 1 .. n_years :
            /\ df.pbt[k] = ProfitBeforeTax(k)
            /\ df.tax_expense[k] = RMul(Floor0(df.pbt[k]), args.tax_rate)
            /\ df.cash_outflow_tax[k] = RNeg(df.tax_expense[k])
            /\ df.pat[k] = RSub(df.pbt[k], df.tax_expense[k])
            /\ RLt(df.pbt[k], Zero) => df.tax_expense[k] = Zero

\* a returned table with a loss-making year followed by a profitable year that
\* is taxed on its whole profit
C12_Witness ==
    /\ Returned
    /\ \E k \in 1 .. n_years : \E m \in 1 .. n_years :
          /\ k < m
          /\ RLt(df.pbt[k], Zero) /\ df.tax_expense[k] = Zero
          /\ RPos(df.pbt[m])
          /\ df.tax_expense[m] = RMul(df.pbt[m], args.tax_rate)
          /\ RPos(df.tax_expense[m])

-----------------------------------------------------------------------------
(* Revenue recognition: C13 *)

\* the revenue-recognition section (lines 247-266) has been executed
RevenueDone == i >= 1

\* the sum of all presales booking amounts
BookedTotal ==
    SumDict([y \in DOMAIN args.presales_schedule |-> Q(args.presales_schedule[y])],
            DOMAIN args.presales_schedule)

InBooking(k) ==
    args.revenue_booking_start_year <= years[k]
    /\ years[k] <= args.revenue_booking_end_year

BookingLength == args.revenue_booking_end_year - args.revenue_booking_start_year + 1

\* the revenue of year k under a distribution, and under the linear rule
DistributedRevenue(total, k) ==
    RMul(total, Get(args.revenue_distribution.d, years[k], Zero))
EvenRevenue(total) == RDiv(total, Q(BookingLength))

\* revenue recognition where `custom` says whether the distribution is used
RecognitionRule(custom) ==
    LET total == BookedTotal
    IN  /\ total_revenue = total
        /\ \A k \in 1 .. n_years :
              df.revenue_recognition[k] =
                  IF InBooking(k)
                  THEN IF custom THEN DistributedRevenue(total, k) ELSE EvenRevenue(total)
                  ELSE Zero
        /\ (~custom /\ BookingInside) => Sum(df.revenue_recognition) = total

\* C13 as stated: total revenue is the sum of the presales amounts; whenever a
\* revenue distribution is given (any mapping, empty or not) a booking-period
\* year y recognizes total_revenue * distribution[y] (0 if absent), without one
\* each booking-period year recognizes total_revenue / length; years outside
\* the booking period recognize 0.
C13_AnyDistributionGiven ==
    RevenueDone => RecognitionRule(~args.revenue_distribution.isNone)

\* C13, amended: the distribution is used only when it is a non-empty mapping;
\* with none or an empty one each booking-period year recognizes
\* total_revenue / length, summing to total_revenue when the booking period
\* lies inside the timeline; years outside the booking period recognize 0.
C13_NonEmptyDistributionGiven ==
    RevenueDone => RecognitionRule(Truthy(args.revenue_distribution))

\* a returned table under a non-empty distribution with a booking-period year
\* that the mapping names, one that it does not name, and a year outside
C13_Witness ==
    /\ Returned
    /\ Truthy(args.revenue_distribution)
    /\ \E k \in 1 .. n_years :
          InBooking(k) /\ years[k] \in DOMAIN args.revenue_distribution.d
          /\ RPos(df.revenue_recognition[k])
    /\ \E k \in 1 .. n_years :
          InBooking(k) /\ years[k] \notin DOMAIN args.revenue_distribution.d
    /\ \E k \in 1 .. n_years : ~InBooking(k)

-----------------------------------------------------------------------------
(* Land payment: C14 *)

\* the land section (lines 236-245) has been executed without an exception
LandDone == pc \in {"revenue", "loop", "prepayment", "pnl", "cash", "summary", "returned"}

OnlyDeprecatedYear ==
    args.land_payment_start_year = None /\ args.land_payment_year # None

\* the start and the duration of the land payment that the arguments ask for
LandStart ==
    IF args.land_payment_start_year # None THEN args.land_payment_start_year
    ELSE IF args.land_payment_year # None THEN args.land_payment_year
    ELSE IF args.project_start_year # None THEN args.project_start_year
    ELSE args.debt_disbursement_start_year
LandYears == IF args.land_payment_start_year # None THEN args.land_payment_years ELSE 1

InLandPayment(k) ==
    LandStart # None /\ LandStart <= years[k] /\ years[k] <= LandStart + LandYears - 1

\* C14: every timeline year among the land_payment_years years that start at
\* land_payment_start_year has Land_Cost = total_land_cost / land_payment_years
\* and Cash_Outflow_Land = -Land_Cost, every other year has 0 in both; with
\* only the deprecated land_payment_year given the payment starts in that year
\* and lasts 1 year whatever land_payment_years is.
C14_LandSpread ==
    LandDone =>
        /\ land_payment_start_year = LandStart
        /\ land_payment_years = LandYears
        /\ OnlyDeprecatedYear =>
              land_payment_start_year = args.land_payment_year /\ land_payment_years = 1
        /\ \A k \in 1 .. n_years :
              /\ df.land_cost[k] =
                    IF InLandPayment(k)
                    THEN RDiv(Q(args.total_land_cost), Q(LandYears))
                    ELSE Zero
              /\ df.cash_outflow_land[k] = RNeg(df.land_cost[k])

\* a returned table whose land cost is paid in two equal parts, with a year
\* outside the payment period
C14_Witness ==
    /\ Returned
    /\ args.land_payment_start_year # None
    /\ args.land_payment_years = 2
    /\ args.total_land_cost > 0
    /\ \E k \in 1 .. n_years : \E m \in 1 .. n_years :
          /\ k # m
          /\ df.land_cost[k] = Rat(args.total_land_cost, 2)
          /\ df.land_cost[m] = Rat(args.total_land_cost, 2)
    /\ \E k \in 1 .. n_years : ~InLandPayment(k) /\ df.land_cost[k] = Zero

-----------------------------------------------------------------------------
(* Cash roll-forward: C15 *)

\* the cash section (lines 376-389) has been executed
CashDone == pc \in {"summary", "returned"}

\* the signed cash-flow columns
CashColumns ==
    <<"cash_inflow_presales", "debt_disbursement", "cash_outflow_construction",
      "cash_outflow_land", "cash_outflow_interest", "cash_outflow_sga",
      "cash_outflow_tax", "debt_repayment">>

\* the sum over the first n cash-flow columns of their value in year k
RECURSIVE CashOfYear(_, _)
CashOfYear(k, n) ==
    IF n = 0 THEN Zero ELSE RAdd(CashOfYear(k, n - 1), df[CashColumns[n]][k])

\* the sum over the first n cash-flow columns of their total over all years
RECURSIVE CashOfColumns(_)
CashOfColumns(n) ==
    IF n = 0 THEN Zero ELSE RAdd(CashOfColumns(n - 1), Sum(df[CashColumns[n]]))

CashBefore(k) == IF k = 1 THEN Zero ELSE df.cumulative_cash_balance[k - 1]

\* C15: Cash_Balance_Change of a year is the sum of its eight signed cash-flow
\* columns, Cumulative_Cash_Balance is the running sum of Cash_Balance_Change,
\* and its last value is the sum of all signed cash-flow columns over all years.
C15_CashRollForward ==
    CashDone =>
        /\ \A k \in 1 .. n_years :
              /\ df.cash_balance_change[k] = CashOfYear(k, Len(CashColumns))
              /\ df.cumulative_cash_balance[k] =
                    RAdd(CashBefore(k), df.cash_balance_change[k])
              /\ df.cumulative_cash_balance[k] = SumTo(df.cash_balance_change, k)
        /\ n_years > 0 =>
              df.cumulative_cash_balance[n_years] = CashOfColumns(Len(CashColumns))
        /\ Returned =>
              summary.cumulative_cash_balance = CashOfColumns(Len(CashColumns))

\* a returned table in which every cash-flow column has a non-zero year and
\* the cumulative balance moves in at least two years
C15_Witness ==
    /\ Returned
    /\ \A c \in 1 .. Len(CashColumns) :
          \E k \in 1 .. n_years : df[CashColumns[c]][k] # Zero
    /\ \E k \in 1 .. n_years : \E m \in 1 .. n_years :
          /\ k < m
          /\ df.cash_balance_change[k] # Zero
          /\ df.cash_balance_change[m] # Zero
          /\ df.cumulative_cash_balance[m] # df.cash_balance_change[m]

-----------------------------------------------------------------------------
(* SG&A: C16 *)

\* the SG&A section (lines 227-234) has been executed; the exceptions named
\* are raised only by later sections
SgaDone ==
    \/ pc \in {"land", "revenue", "loop", "prepayment", "pnl", "cash", "summary",
               "returned"}
    \/ pc = "raised" /\ exc \in {"ZeroDivisionError", "ValueError", "IndexError"}

-----------------------------------------------------------------------------
(* The adapter against the engine: C17 *)

\* the adapter has called the engine and the engine has not raised
SimplifiedCalled == Len(caller) = 1 /\ pc \notin {"simplified", "raised"}

\* the adapter's arguments name a sales period
SalesYearsGiven(k) == k.sales_start_year # None /\ k.sales_end_year # None

\* the presales_schedule of the claim: an amount for every sales year, 0 when
\* the distribution has no key for the year
StatedPresales(k) ==
    [y \in k.sales_start_year .. k.sales_end_year |->
        IF Str(y) \in DOMAIN k.presales_distribution.d
        THEN Whole(RDiv(RMul(Q(k.total_revenue), Q(k.presales_distribution.d[Str(y)])),
                        Q(100)))
        ELSE 0]

\* {int(k): v / 100}
StatedDistribution(k) ==
    LET d == k.revenue_distribution.d
        year_of == [s \in DOMAIN d |-> IntOf(s)]
    IN  [isNone |-> k.revenue_distribution.isNone,
         d |-> [y \in {year_of[s] : s \in DOMAIN d} |->
                  RDiv(Q(d[CHOOSE s \in DOMAIN d : year_of[s] = y]), Q(100))]]

\* the engine call of the claim, given its presales_schedule and revenue_distribution
StatedCall(k, presales, distribution) ==
    [total_debt |-> k.total_debt,
     total_construction_cost |-> k.total_construction_cost,
     total_land_cost |-> k.total_land_cost,
     land_payment_year |-> k.land_payment_year,
     presales_schedule |-> presales,
     interest_rate |-> k.interest_rate,
     sga_percentage |-> k.sga_percentage,
     debt_disbursement_start_year |-> k.construction_start_year,
     debt_disbursement_end_year |-> k.construction_end_year,
     debt_repayment_start_year |-> k.debt_repayment_start_year,
     debt_repayment_end_year |-> k.debt_repayment_end_year,
     revenue_booking_start_year |-> k.revenue_booking_start_year,
     revenue_booking_end_year |-> k.revenue_booking_end_year,
     revenue_distribution |-> distribution,
     project_start_year |-> None, project_end_year |-> None,
     tax_rate |-> k.tax_rate, cash_collection_schedules |-> NoDict,
     land_payment_start_year |-> k.land_payment_start_year,
     land_payment_years |-> k.land_payment_years]

\* the entries of a presales schedule with a non-zero amount
NonZeroEntries(p) == [y \in {z \in DOMAIN p : p[z] # 0} |-> p[y]]

\* the years a call hands to the timeline derivation of lines 81-113 when it
\* names no project years: the period boundaries, the resolved land start
\* (lines 71-79) and the first and last key of the presales schedule
CallLandStart(c) ==
    IF c.land_payment_start_year # None THEN c.land_payment_start_year
    ELSE IF c.land_payment_year # None THEN c.land_payment_year
    ELSE c.debt_disbursement_start_year
CallStartYears(c) ==
    ({c.debt_disbursement_start_year, CallLandStart(c), c.revenue_booking_start_year,
      c.debt_repayment_start_year} \cup DOMAIN c.presales_schedule) \ {None}
CallEndYears(c) ==
    ({c.debt_disbursement_end_year, c.debt_repayment_end_year,
      c.revenue_booking_end_year} \cup DOMAIN c.presales_schedule) \ {None}

\* two engine calls that differ in nothing the engine's result depends on: a
\* zero presales amount matters only through the timeline (lines 92, 107),
\* and an empty revenue distribution is treated like None (line 250)
SameResult(a, b) ==
    /\ [a EXCEPT !.presales_schedule = <<>>, !.revenue_distribution = NoDict]
         = [b EXCEPT !.presales_schedule = <<>>, !.revenue_distribution = NoDict]
    /\ NonZeroEntries(a.presales_schedule) = NonZeroEntries(b.presales_schedule)
    /\ Truthy(a.revenue_distribution) = Truthy(b.revenue_distribution)
    /\ Truthy(a.revenue_distribution) =>
          a.revenue_distribution.d = b.revenue_distribution.d
    /\ (CallStartYears(a) = {}) = (CallStartYears(b) = {})
    /\ (CallEndYears(a) = {}) = (CallEndYears(b) = {})
    /\ CallStartYears(a) # {} => SetMin(CallStartYears(a)) = SetMin(CallStartYears(b))
    /\ CallEndYears(a) # {} => SetMax(CallEndYears(a)) = SetMax(CallEndYears(b))

\* C17 as stated: without price escalation, for every presales distribution
\* (empty or not) and a given sales period the adapter's result is the
\* engine's result for presales_schedule = {y: total_revenue *
\* presales_distribution[str(y)] / 100 for every sales year y, 0 when the key
\* is absent}, revenue_distribution = {int(k): v / 100}, the construction
\* boundaries as disbursement boundaries and the other parameters unchanged.
C17_AmountForEverySalesYear ==
    LET k == caller[1]
    IN  (SimplifiedCalled /\ ~Escalates(k) /\ SalesYearsGiven(k)
         /\ ~k.presales_distribution.isNone) =>
            SameResult(args, StatedCall(k, StatedPresales(k), StatedDistribution(k)))

\* C17, amended: without price escalation the adapter calls the engine with
\* presales_schedule = {y: total_revenue * presales_distribution[str(y)] / 100
\* for every sales year y, 0 when the key is absent} when the presales
\* distribution is non-empty and with presales_schedule = {} when it is None
\* or empty; revenue_distribution = {int(k): v / 100}, or None when it is None
\* or empty; the construction boundaries as disbursement boundaries; the
\* other parameters unchanged; no collection schedule, no project years.
C17_NoAmountWithoutDistribution ==
    LET k == caller[1]
    IN  (SimplifiedCalled /\ ~Escalates(k)) =>
            args = StatedCall(k,
                       IF Truthy(k.presales_distribution) THEN StatedPresales(k) ELSE <<>>,
                       IF Truthy(k.revenue_distribution) THEN StatedDistribution(k)
                       ELSE NoDict)

\* the adapter has returned the engine's table for a call without price
\* escalation whose presales distribution misses a sales year and whose
\* revenue distribution is given in percent
C17_Witness ==
    /\ Len(caller) = 1
    /\ Returned
    /\ ~Escalates(caller[1])
    /\ Truthy(caller[1].presales_distribution)
    /\ Truthy(caller[1].revenue_distribution)
    /\ \E y \in DOMAIN args.presales_schedule : args.presales_schedule[y] = 0
    /\ \E y \in DOMAIN args.presales_schedule : args.presales_schedule[y] > 0
    /\ \E k \in 1 .. n_years : RPos(df.revenue_recognition[k])

-----------------------------------------------------------------------------
(* COGS on the final capitalized interest: C18 *)

\* year k was processed as a booking-period year other than the last one,
\* with revenue to recognize
ProportionalYear(k) ==
    /\ Processed(k)
    /\ InBooking(k)
    /\ years[k] # args.revenue_booking_end_year
    /\ RPos(total_revenue)

\* total_construction_cost + total_land_cost + the capitalized interest
\* recorded in the table, as far as the loop has got
ExpectedInventory ==
    RAdd(RAdd(Q(args.total_construction_cost), Q(args.total_land_cost)),
         Sum(df.interest_capitalized))

\* C18: from the moment the loop has computed the COGS of a booking-period
\* year other than the last one (total revenue > 0) and in every later state,
\* up to the returned table, COGS of that year = (total_construction_cost +
\* total_land_cost + the sum of Interest_Capitalized recorded in the table)
\* * (Revenue_Recognition of the year / total revenue), and neither that year
\* nor any later year capitalizes interest: the sum the loop used is already
\* the sum over the whole timeline.
C18_CogsOnFinalCapitalizedInterest ==
    LET expected == ExpectedInventory
    IN  \A k \in 1 .. n_years : ProportionalYear(k) =>
            /\ df.cogs[k] =
                  RMul(expected, RDiv(df.revenue_recognition[k], total_revenue))
            /\ \A m \in k .. n_years : df.interest_capitalized[m] = Zero

\* the loop has just computed the COGS of a booking-period year that is not
\* the last one, interest was capitalized before, and years remain to process
C18_Witness ==
    /\ pc = "loop"
    /\ i >= 2 /\ i <= n_years
    /\ ProportionalYear(i - 1)
    /\ RPos(df.cogs[i - 1])
    /\ RPos(Sum(df.interest_capitalized))
    /\ RPos(AverageBalance(i))

-----------------------------------------------------------------------------
(* Inventory roll-forward: C19 *)

InventoryBefore(k) == IF k = 1 THEN Zero ELSE df.inventory_balance[k - 1]

-----------------------------------------------------------------------------
(* Debt roll-forward: C20 *)

\* C20: in every processed year Debt_Balance = prior Debt_Balance (0 before
\* the first year) + Debt_Disbursement + Debt_Repayment (negative); in the
\* returned table the debt balance of the last year is 0 exactly when the
\* disbursements recorded equal the repayments recorded, and it is 0 when the
\* disbursement and the repayment period both lie inside the timeline.
C20_DebtRollForward ==
    /\ \A k \in 1 .. n_years : Processed(k) =>
          df.debt_balance[k] =
              RAdd(RAdd(DebtBefore(k), df.debt_disbursement[k]), df.debt_repayment[k])
    /\ Returned =>
          /\ (df.debt_balance[n_years] = Zero) <=>
                (Sum(df.debt_disbursement) = RNeg(Sum(df.debt_repayment)))
          /\ (DisbursementInside /\ RepaymentInside) => df.debt_balance[n_years] = Zero
          /\ summary.debt_balance = df.debt_balance[n_years]

\* a returned table whose disbursement and repayment periods lie inside the
\* timeline: debt is outstanding in some year and fully repaid in the last
C20_Witness ==
    /\ Returned
    /\ DisbursementInside /\ RepaymentInside
    /\ args.total_debt > 0
    /\ \E k \in 1 .. n_years : RPos(df.debt_balance[k])
    /\ df.debt_balance[n_years] = Zero
    /\ RPos(Sum(df.debt_disbursement))

-----------------------------------------------------------------------------
(* Customer prepayment balance *)

\* the loop of lines 344-352 has run
PrepaymentDone == pc \in {"pnl", "cash", "summary", "returned"}

\* previous_prepayment of year index k (lines 345-348)
PrepaymentBefore(k) ==
    IF k = 1 THEN Zero ELSE df.customer_prepayment_balance[k - 1]

\* C21: Customer_Prepayment_Balance[y] = Customer_Prepayment_Balance[y-1]
\* + Cash_Inflow_Presales[y] - Revenue_Recognition[y] in every year, with
\* balance 0 before the first year; the balance is never clamped: it is the
\* cumulative collection minus the cumulative recognition, so a year in which
\* cumulative recognition exceeds cumulative collection shows a negative
\* balance; the 'Total' row carries the balance of the last year.
C21_PrepaymentRollForward ==
    PrepaymentDone =>
        /\ \A k \in 1 .. n_years :
              LET collected == SumTo(df.cash_inflow_presales, k)
                  recognized == SumTo(df.revenue_recognition, k)
                  balance == df.customer_prepayment_balance[k]
              IN  /\ balance = RSub(RAdd(PrepaymentBefore(k),
                                         df.cash_inflow_presales[k]),
                                    df.revenue_recognition[k])
                  /\ balance = RSub(collected, recognized)
                  /\ RLt(collected, recognized) => RLt(balance, Zero)
        /\ Returned =>
              summary.customer_prepayment_balance =
                  df.customer_prepayment_balance[n_years]

\* a returned table in which revenue is recognized in a year before the cash
\* of the booking is collected: the balance of that year is negative, and a
\* later year with collection brings it back up
C21_Witness ==
    /\ Returned
    /\ \E j, k \in 1 .. n_years :
          /\ j < k
          /\ RPos(df.revenue_recognition[j])
          /\ RLt(df.customer_prepayment_balance[j], Zero)
          /\ RPos(df.cash_inflow_presales[k])
          /\ RLt(df.customer_prepayment_balance[j], df.customer_prepayment_balance[k])

-----------------------------------------------------------------------------
(* Conservation of the booked amount under the default tranche rule *)

\* the default rule is the branch taken at line 178: no mapping, or an empty one
DefaultRuleTaken == ~Truthy(args.cash_collection_schedules)

\* every year from b through max(b, debt_disbursement_end_year) is in the timeline
CollectionWindowInside(b) ==
    \A y \in b .. SetMax({b, args.debt_disbursement_end_year}) : InTimeline(y)

\* the cash that the booking of year b adds to Cash_Inflow_Presales, all years
CashOfBooking(b) == Sum(DefaultCollection(b, args.presales_schedule[b]))

\* C22: under the default tranche rule, for every booking year b inside the
\* timeline with positive amount: the remaining-70%-into-the-booking-year
\* branch is not taken; if every year from b through
\* max(b, debt_disbursement_end_year) is inside the timeline, the cash the
\* booking adds over all years totals exactly its booked amount (and falls
\* short of it otherwise); when that holds for every such booking, the sum of
\* Cash_Inflow_Presales equals the sum of Presales.
C22_DefaultRuleConserves ==
    (CollectionDone /\ DefaultRuleTaken) =>
        /\ \A b \in CollectingYears :
              LET amount == Q(args.presales_schedule[b])
              IN  /\ DefaultBranch(b) # "remaining_in_booking_year"
                  /\ IF CollectionWindowInside(b)
                     THEN CashOfBooking(b) = amount
                     ELSE RLt(CashOfBooking(b), amount)
        /\ (\A b \in CollectingYears : CollectionWindowInside(b)) =>
              /\ Sum(df.cash_inflow_presales) = Sum(df.presales)
              /\ Returned => summary.cash_inflow_presales = summary.presales

\* a returned table under the default rule with two bookings, one of them
\* spread over at least two forward years, all windows inside the timeline:
\* the cash collected totals the booked amounts
C22_Witness ==
    /\ Returned /\ DefaultRuleTaken
    /\ Cardinality(CollectingYears) = 2
    /\ \A b \in CollectingYears : CollectionWindowInside(b)
    /\ \E b \in CollectingYears :
          /\ DefaultBranch(b) = "spread"
          /\ Cardinality(CollectionYears(b)) >= 2
          /\ \A y \in CollectionYears(b) :
                \E k \in 1 .. n_years : years[k] = y /\ RPos(df.cash_inflow_presales[k])
    /\ Sum(df.cash_inflow_presales) = Sum(df.presales)
    /\ RPos(Sum(df.presales))

====
